---- MODULE Spec2Model ----
(***************************************************************************)
(* PillowMate action-recognition tooling: the two augmentation CLIs, the   *)
(* serial data-collection CLI and the sequence-inference CLI, modelled as  *)
(* state machines, one specification per program.                         *)
(*                                                                         *)
(* Numbers.  Sensor values are float32 in the code; here they are integers *)
(* in units of one quantum.  A ratio (crop ratio, mask ratio, scale) is a  *)
(* rational k / RatioDen, held as its numerator k.  A random.Random object *)
(* is the stream of raw draws it will produce and a position in it:       *)
(* random() is raw / RawMax and randint(a, b) is a + raw % (b - a + 1).    *)
(***************************************************************************)
EXTENDS Integers, Sequences, FiniteSets, TLC

VARIABLES
    call,       \* pure-function harness: the function called and its arguments
    ret,        \* pure-function harness: what the call returned
    cpc,        \* pure-function harness: "ready" | "returned"
    colArgs,    \* collect_data: the parsed command line
    colPc,      \* collect_data: position of main
    colLabel,   \* collect_data: index of the label being recorded (1-based)
    colTrial,   \* collect_data: trial being recorded (1-based)
    elapsed,    \* collect_data: time.time() - start_time of the running trial, in seconds
    rows,       \* collect_data: main's row list
    csv,        \* collect_data: the CSV file (NoFile until written)
    echoed,     \* collect_data: sample lines echoed to the console
    history,    \* environment: what the serial device delivered, and during which trial
    lastEvent,  \* environment: "error" when the last ser.readline() raised, else "none"
    infArgs,    \* sequence_infer: the parsed command line
    infPayload, \* sequence_infer: the JSON input
    infConfig,  \* sequence_infer: the config JSON
    infPc,      \* sequence_infer: position of main
    infSeq,     \* sequence_infer: sequence_np, as cells over a common denominator
    infStats,   \* sequence_infer: idle_stats
    infStdout,  \* sequence_infer: result lines printed to standard output
    infStderr,  \* sequence_infer: lines printed to standard error
    infNet,     \* sequence_infer: what was done with the network
    infError,   \* sequence_infer: the exception that ended the run ("" when none)
    augArgs,    \* augment_sequences: the command line
    augFiles,   \* augment_sequences: the input files, by path
    augOut0,    \* augment_sequences: the output directory before the run
    augOut,     \* augment_sequences: the output directory, path -> file content
    augPaths,   \* augment_sequences: input_paths
    augIdx,     \* augment_sequences: position of main's loop in input_paths (1-based)
    augPc,      \* augment_sequences: position of main
    augRng,     \* augment_sequences: rng, the random.Random object
    augNp,      \* augment_sequences: the state of numpy's global generator
    augWritten, \* augment_sequences: main's counter of written sequences
    augWrites,  \* augment_sequences: the save_sequence calls made, in order
    augError,   \* augment_sequences: the exception that ended the run ("" when none)
    augRun,     \* environment: 1 during the first run, 2 during its repetition
    augFirst    \* environment: the outcome of the first run

callVars == <<call, ret, cpc>>

collectVars == <<colArgs, colPc, colLabel, colTrial, elapsed, rows, csv, echoed,
                 history, lastEvent>>

inferVars == <<infArgs, infPayload, infConfig, infPc, infSeq, infStats, infStdout,
               infStderr, infNet, infError>>

augVars == <<augArgs, augFiles, augOut0, augOut, augPaths, augIdx, augPc, augRng,
             augNp, augWritten, augWrites, augError, augRun, augFirst>>

vars == <<callVars, collectVars, inferVars, augVars>>

\* everything but the harness, but the collector, but the inference CLI, but
\* the augmentation CLIs
notCall == <<collectVars, inferVars, augVars>>

notCollect == <<callVars, inferVars, augVars>>

notInfer == <<callVars, collectVars, augVars>>

notAug == <<callVars, collectVars, inferVars>>

----------------------------------------------------------------------------
(* Bounds of the model *)

MaxLen == 5          \* longest sequence (frames)
RatioDen == 4        \* ratios are k / RatioDen
RawMax == 4          \* raw draws are 0..RawMax

RatioNums == (-1)..(RatioDen + 2)

----------------------------------------------------------------------------
(* The state of a program that is not running in the specification at hand *)

NoFile == [exists |-> FALSE, lines |-> <<>>]

IdleCollect ==
    /\ colArgs = [labels |-> <<>>, trials |-> 0, duration |-> 0, quiet |-> TRUE]
    /\ colPc = "idle"
    /\ colLabel = 0
    /\ colTrial = 0
    /\ elapsed = 0
    /\ rows = <<>>
    /\ csv = NoFile
    /\ echoed = 0
    /\ history = <<>>
    /\ lastEvent = "none"

NoStats == [raised |-> FALSE, n |-> 0, den |-> 1, pressure_var |-> 0,
            pressure_abs |-> 0, accel_var_max |-> 0, gyro_var_max |-> 0]

NoNet == [built |-> FALSE, loaded |-> FALSE, ran |-> FALSE]

IdleInfer ==
    /\ infArgs = [auto_idle |-> FALSE]
    /\ infPayload = [kind |-> "none"]
    /\ infConfig = [labels |-> <<>>]
    /\ infPc = "idle"
    /\ infSeq = [cells |-> <<>>, den |-> 1]
    /\ infStats = NoStats
    /\ infStdout = <<>>
    /\ infStderr = 0
    /\ infNet = NoNet
    /\ infError = ""

NoOutcome == [pc |-> "none"]

IdleAug ==
    /\ augArgs = [cli |-> "none"]
    /\ augFiles = <<>>
    /\ augOut0 = <<>>
    /\ augOut = <<>>
    /\ augPaths = <<>>
    /\ augIdx = 0
    /\ augPc = "idle"
    /\ augRng = [draws |-> <<0>>, pos |-> 0]
    /\ augNp = [draws |-> <<0>>, pos |-> 0]
    /\ augWritten = 0
    /\ augWrites = <<>>
    /\ augError = ""
    /\ augRun = 0
    /\ augFirst = NoOutcome

IdleCall ==
    /\ call = [op |-> "none"]
    /\ ret = [op |-> "none"]
    /\ cpc = "idle"

----------------------------------------------------------------------------
(* Arithmetic helpers *)

Max(a, b) == IF a >= b THEN a ELSE b

Min(a, b) == IF a <= b THEN a ELSE b

\* math.ceil(a / b) for b > 0
CeilDiv(a, b) == -((-a) \div b)

\* int(a / b) for b > 0: truncation toward zero
TruncDiv(a, b) == IF a >= 0 THEN a \div b ELSE -((-a) \div b)

----------------------------------------------------------------------------
(* Sequences of frames.  A frame is a tuple of cell values; Frames(len, w) *)
(* is the test sequence whose cells are pairwise distinct and non-zero.    *)

Frames(len, width) == [i \in 1..len |-> [c \in 1..width |-> 10 * i + c]]

\* numpy's shape[0]
Shape0(sequence) == Len(sequence)

\* numpy's sequence[start : stop] (0-based, stop exclusive, clipped)
Slice(sequence, start, stop) ==
    SubSeq(sequence, start + 1, Min(stop, Len(sequence)))

----------------------------------------------------------------------------
(* random.Random: the stream of raw draws and the position in it *)

RngRaw(rng) == rng.draws[(rng.pos % Len(rng.draws)) + 1]

RngAdvance(rng) == [rng EXCEPT !.pos = rng.pos + 1]

\* rng.uniform(a, b) = a + (b - a) * random(), as a numerator over
\* RatioDen * RawMax (a and b are numerators over RatioDen)
Uniform(rng, a, b) == a * RawMax + (b - a) * RngRaw(rng)

\* rng.randint(a, b), a <= b
RandInt(rng, a, b) == a + (RngRaw(rng) % (b - a + 1))

RngStreams(n) == { [draws |-> d, pos |-> 0] : d \in [1..n -> 0..RawMax] }

----------------------------------------------------------------------------
(* random_crop: returns the cropped sequence and the rng after its draws *)

\* random_crop with the crop length rounded down instead of up
random_crop_floor(sequence, rng, min_ratio, max_ratio) ==
    IF Shape0(sequence) < 2
    THEN [seq |-> sequence, rng |-> rng]
    ELSE LET ratio == Uniform(rng, min_ratio, max_ratio)
             rng1 == RngAdvance(rng)
             crop_len == (Shape0(sequence) * ratio) \div (RatioDen * RawMax)
         IN  IF crop_len >= Shape0(sequence)
             THEN [seq |-> sequence, rng |-> rng1]
             ELSE LET start == RandInt(rng1, 0, Shape0(sequence) - crop_len)
                  IN  [seq |-> Slice(sequence, start, start + crop_len),
                       rng |-> RngAdvance(rng1)]

random_crop(sequence, rng, min_ratio, max_ratio) ==
    IF Shape0(sequence) < 2
    THEN [seq |-> sequence, rng |-> rng]
    ELSE LET ratio == Uniform(rng, min_ratio, max_ratio)
             rng1 == RngAdvance(rng)
             crop_len == Max(2, CeilDiv(Shape0(sequence) * ratio, RatioDen * RawMax))
         IN  IF crop_len >= Shape0(sequence)
             THEN [seq |-> sequence, rng |-> rng1]
             ELSE LET start == RandInt(rng1, 0, Shape0(sequence) - crop_len)
                  IN  [seq |-> Slice(sequence, start, start + crop_len),
                       rng |-> RngAdvance(rng1)]

----------------------------------------------------------------------------
(* Specification SpecCrop: one call of random_crop on drawn arguments *)

InitCrop ==
    /\ call \in { [op |-> "random_crop", sequence |-> Frames(n, 1), rng |-> g,
                   min_ratio |-> lo, max_ratio |-> hi] :
                  n \in 0..MaxLen, g \in RngStreams(2),
                  lo \in RatioNums, hi \in RatioNums }
    /\ ret = [seq |-> <<>>, rng |-> [draws |-> <<0>>, pos |-> 0]]
    /\ cpc = "ready"
    /\ IdleCollect
    /\ IdleInfer
    /\ IdleAug

CallRandomCrop ==
    /\ cpc = "ready"
    /\ call.op = "random_crop"
    /\ ret' = random_crop(call.sequence, call.rng, call.min_ratio, call.max_ratio)
    /\ cpc' = "returned"
    /\ UNCHANGED <<call, notCall>>

NextCrop == CallRandomCrop

SpecCrop == InitCrop /\ [][NextCrop]_vars

\* ceil(len * ratio) for a ratio numerator over RatioDen
CropFloor(len, ratio) == Max(2, CeilDiv(len * ratio, RatioDen))

IsWindowOf(out, sequence) ==
    \E start \in 0..(Len(sequence) - Len(out)) :
        out = [i \in 1..Len(out) |-> sequence[start + i]]

\* C8 as stated: for every sequence of at least 2 frames and every pair of
\* crop-ratio bounds, the output of random_crop has a length in
\* [max(2, ceil(len * min_ratio)), len] and is a contiguous window of the input.
C8_Original ==
    (cpc = "returned" /\ call.op = "random_crop" /\ Len(call.sequence) >= 2) =>
        /\ Len(ret.seq) >= CropFloor(Len(call.sequence), call.min_ratio)
        /\ Len(ret.seq) <= Len(call.sequence)
        /\ IsWindowOf(ret.seq, call.sequence)

\* C8 amended: the lower end of the length interval is taken at the smaller of
\* the two ratio bounds and never exceeds the input length:
\* length in [min(len, max(2, ceil(len * min(min_ratio, max_ratio)))), len],
\* and the output is a contiguous window of the input.
C8_CropWindow ==
    (cpc = "returned" /\ call.op = "random_crop" /\ Len(call.sequence) >= 2) =>
        /\ Len(ret.seq) >= Min(Len(call.sequence),
                               CropFloor(Len(call.sequence),
                                         Min(call.min_ratio, call.max_ratio)))
        /\ Len(ret.seq) <= Len(call.sequence)
        /\ IsWindowOf(ret.seq, call.sequence)

\* C8 witness: a real crop happened, strictly shorter than the input and not
\* starting at its first frame
C8_Witness ==
    /\ cpc = "returned" /\ call.op = "random_crop"
    /\ call.min_ratio <= call.max_ratio
    /\ Len(ret.seq) < Len(call.sequence)
    /\ Len(ret.seq) >= 2
    /\ ret.seq[1] # call.sequence[1]

----------------------------------------------------------------------------
(* time_mask.  Arrays are objects: the result names the contents of the    *)
(* returned array (seq), the contents of the caller's array after the call *)
(* (input), whether an IndexError was raised (raised), and the chunk       *)
(* starts drawn (starts).                                                  *)

\* numpy's shape[1]
Shape1(sequence) == IF Len(sequence) = 0 THEN 0 ELSE Len(sequence[1])

FeatureGroupNames == {"pressure", "accelerometer", "gyroscope"}

\* FEATURE_COLUMN_GROUPS (0-based columns)
FEATURE_COLUMN_GROUPS ==
    [g \in FeatureGroupNames |->
        CASE g = "pressure" -> {0}
          [] g = "accelerometer" -> {1, 2, 3}
          [] g = "gyroscope" -> {4, 5, 6}]

\* FEATURE_COLUMN_GROUPS.get(target, [])
GroupColumns(target) ==
    IF target \in FeatureGroupNames THEN FEATURE_COLUMN_GROUPS[target] ELSE {}

Elems(list) == { list[i] : i \in 1..Len(list) }

\* the column set time_mask zeroes
MaskColumns(sequence, targets) ==
    LET columns ==
            IF "all" \in Elems(targets)
            THEN 0..(Shape1(sequence) - 1)
            ELSE UNION { GroupColumns(t) : t \in Elems(targets) }
    IN  IF columns = {} THEN FEATURE_COLUMN_GROUPS["pressure"] ELSE columns

\* masked[start : start + chunk_len, columns] = 0.0
ZeroRows(arr, start, chunk_len, columns) ==
    [i \in 1..Len(arr) |->
        [c \in 1..Len(arr[i]) |->
            IF i - 1 >= start /\ i - 1 < start + chunk_len /\ (c - 1) \in columns
            THEN 0 ELSE arr[i][c]]]

\* the loop of time_mask: n repetitions left, st the state so far
RECURSIVE MaskLoop(_, _, _, _)
MaskLoop(n, st, chunk_len, columns) ==
    IF n = 0 \/ st.raised
    THEN st
    ELSE LET start == RandInt(st.rng, 0, Max(0, Len(st.seq) - chunk_len))
             rng1 == RngAdvance(st.rng)
         IN  IF \E c \in columns : c >= Shape1(st.seq)
             THEN [st EXCEPT !.rng = rng1, !.raised = TRUE]
             ELSE MaskLoop(n - 1,
                           [st EXCEPT !.rng = rng1,
                                      !.starts = Append(st.starts, start),
                                      !.seq = ZeroRows(st.seq, start, chunk_len, columns),
                                      !.input = IF st.same
                                                THEN ZeroRows(st.input, start, chunk_len, columns)
                                                ELSE st.input],
                           chunk_len, columns)

\* time_mask writing into the caller's array (masked = sequence, no copy)
time_mask_inplace(sequence, rng, ratio, chunks, targets) ==
    IF ratio <= 0 \/ Shape0(sequence) < 2
    THEN [seq |-> sequence, input |-> sequence, same |-> TRUE, rng |-> rng,
          raised |-> FALSE, starts |-> <<>>]
    ELSE LET total_frames == Max(1, TruncDiv(Shape0(sequence) * Min(ratio, RatioDen), RatioDen))
             chunk_len == Max(1, total_frames \div Max(1, chunks))
         IN  MaskLoop(Max(1, chunks),
                      [seq |-> sequence, input |-> sequence, same |-> TRUE, rng |-> rng,
                       raised |-> FALSE, starts |-> <<>>],
                      chunk_len, MaskColumns(sequence, targets))

\* time_mask masking one chunk whatever the chunk count
time_mask_once(sequence, rng, ratio, chunks, targets) ==
    IF ratio <= 0 \/ Shape0(sequence) < 2
    THEN [seq |-> sequence, input |-> sequence, same |-> TRUE, rng |-> rng,
          raised |-> FALSE, starts |-> <<>>]
    ELSE LET total_frames == Max(1, TruncDiv(Shape0(sequence) * Min(ratio, RatioDen), RatioDen))
             chunk_len == Max(1, total_frames \div Max(1, chunks))
         IN  MaskLoop(1,
                      [seq |-> sequence, input |-> sequence, same |-> FALSE, rng |-> rng,
                       raised |-> FALSE, starts |-> <<>>],
                      chunk_len, MaskColumns(sequence, targets))

time_mask(sequence, rng, ratio, chunks, targets) ==
    IF ratio <= 0 \/ Shape0(sequence) < 2
    THEN [seq |-> sequence, input |-> sequence, same |-> TRUE, rng |-> rng,
          raised |-> FALSE, starts |-> <<>>]
    ELSE LET total_frames == Max(1, TruncDiv(Shape0(sequence) * Min(ratio, RatioDen), RatioDen))
             chunk_len == Max(1, total_frames \div Max(1, chunks))
         IN  MaskLoop(Max(1, chunks),
                      [seq |-> sequence, input |-> sequence, same |-> FALSE, rng |-> rng,
                       raised |-> FALSE, starts |-> <<>>],
                      chunk_len, MaskColumns(sequence, targets))

----------------------------------------------------------------------------
(* Specification SpecMask: one call of time_mask on drawn arguments *)

MaxChunks == 2       \* largest chunk count drawn

MaskWidths == {4, 7, 8}

MaskTargetLists ==
    { <<"pressure">>, <<"accelerometer">>, <<"gyroscope">>, <<"all">>,
      <<"gyroscope", "pressure">>, <<"accelerometer", "all">>,
      <<>>, <<"bogus">> }

InitMask ==
    /\ call \in { [op |-> "time_mask", sequence |-> Frames(n, w), rng |-> g,
                   ratio |-> r, chunks |-> k, targets |-> t] :
                  n \in 0..MaxLen, w \in MaskWidths, g \in RngStreams(2),
                  r \in RatioNums, k \in (-1)..MaxChunks, t \in MaskTargetLists }
    /\ ret = [seq |-> <<>>, rng |-> [draws |-> <<0>>, pos |-> 0]]
    /\ cpc = "ready"
    /\ IdleCollect
    /\ IdleInfer
    /\ IdleAug

CallTimeMask ==
    /\ cpc = "ready"
    /\ call.op = "time_mask"
    /\ ret' = time_mask(call.sequence, call.rng, call.ratio, call.chunks, call.targets)
    /\ cpc' = "returned"
    /\ UNCHANGED <<call, notCall>>

NextMask == CallTimeMask

SpecMask == InitMask /\ [][NextMask]_vars

\* the columns the claim names for a list of targets, by frame width
ClaimedColumns(width, targets) ==
    LET named == { c \in 0..(width - 1) :
                     \/ "all" \in Elems(targets)
                     \/ ("pressure" \in Elems(targets) /\ c = 0)
                     \/ ("accelerometer" \in Elems(targets) /\ c \in 1..3)
                     \/ ("gyroscope" \in Elems(targets) /\ c \in 4..6) }
    IN  IF named = {} THEN {0} ELSE named

\* the chunk length the specification gives
ClaimedChunkLen(len, ratio, chunks) ==
    Max(1, Max(1, (len * Min(ratio, RatioDen)) \div RatioDen) \div Max(1, chunks))

InChunk(row, starts, chunk_len) ==
    \E k \in 1..Len(starts) : row >= starts[k] /\ row < starts[k] + chunk_len

MaskReturned == cpc = "returned" /\ call.op = "time_mask" /\ ~ret.raised

\* C9: whenever time_mask returns, the result has the shape of the input, every
\* cell in a selected column and inside a masked chunk is 0, every other cell
\* equals the input cell, and the input array still holds its original contents.
C9_MaskFrame ==
    MaskReturned =>
        LET in == call.sequence
            out == ret.seq
            cols == ClaimedColumns(Shape1(in), call.targets)
            clen == ClaimedChunkLen(Len(in), call.ratio, call.chunks)
        IN  /\ Len(out) = Len(in)
            /\ \A i \in 1..Len(in) :
                 /\ Len(out[i]) = Len(in[i])
                 /\ \A c \in 1..Len(in[i]) :
                      out[i][c] = IF (c - 1) \in cols /\ InChunk(i - 1, ret.starts, clen)
                                  THEN 0 ELSE in[i][c]
            /\ ret.input = in

\* C9 witness: two chunks were zeroed at different starts in the gyroscope and
\* pressure columns of an 8-wide sequence, and a cell outside them is intact
C9_Witness ==
    /\ MaskReturned
    /\ call.targets = <<"gyroscope", "pressure">>
    /\ Shape1(call.sequence) = 8
    /\ Len(ret.starts) = 2 /\ ret.starts[1] # ret.starts[2]
    /\ \E i \in 1..Len(ret.seq) : ret.seq[i][5] = 0 /\ ret.seq[i][2] # 0
    /\ \E i \in 1..Len(ret.seq) : ret.seq[i][1] # 0

\* time_mask was called with ratio > 0 on at least 2 frames
MaskActive ==
    /\ cpc = "returned" /\ call.op = "time_mask"
    /\ call.ratio > 0 /\ Len(call.sequence) >= 2

\* the repetitions made: each start lies in [0, length - chunk_len] and the
\* selected columns are 0 over [start, start + chunk_len)
ChunksZeroed ==
    LET in == call.sequence
        cols == ClaimedColumns(Shape1(in), call.targets)
        clen == ClaimedChunkLen(Len(in), call.ratio, call.chunks)
    IN  \A k \in 1..Len(ret.starts) :
            /\ ret.starts[k] >= 0
            /\ ret.starts[k] <= Len(in) - clen
            /\ \A i \in 1..Len(in) :
                  (i - 1 >= ret.starts[k] /\ i - 1 < ret.starts[k] + clen) =>
                      \A c \in cols : ret.seq[i][c + 1] = 0

\* C13 as stated: a time_mask call that is no no-op makes exactly `chunks`
\* repetitions, each with a start in [0, length - chunk_len] and zeroing the
\* selected columns over [start, start + chunk_len), for every integer chunk
\* count.
C13_Original ==
    (MaskActive /\ ~ret.raised) =>
        /\ Len(ret.starts) = call.chunks
        /\ ChunksZeroed

\* C13 amended: a time_mask call that is no no-op and returns has made exactly
\* max(1, chunks) repetitions, one draw of the generator each, each with a
\* start in [0, length - chunk_len] and zeroing the selected columns over
\* [start, start + chunk_len); a call whose column set reaches past the frame
\* width raises IndexError at its first repetition, with nothing masked.
C13_Repetitions ==
    MaskActive =>
        IF ret.raised
        THEN /\ ret.starts = <<>>
             /\ ret.seq = call.sequence
             /\ \E t \in Elems(call.targets) :
                   \E c \in GroupColumns(t) : c >= Shape1(call.sequence)
        ELSE /\ Len(ret.starts) = Max(1, call.chunks)
             /\ ret.rng.pos = call.rng.pos + Max(1, call.chunks)
             /\ ChunksZeroed

\* C13 witness: a call with chunk count 0 masked one chunk of two frames in
\* the accelerometer columns
C13_Witness ==
    /\ MaskActive /\ ~ret.raised
    /\ call.chunks = 0
    /\ Len(ret.starts) = 1
    /\ call.targets = <<"accelerometer">>
    /\ \E i \in 1..(Len(ret.seq) - 1) :
          /\ ret.seq[i][2] = 0 /\ ret.seq[i + 1][2] = 0
          /\ ret.seq[i][1] # 0

\* the frames of the result that time_mask zeroed (the input has no zero cell)
ZeroedFrames ==
    { i \in 1..Len(ret.seq) :
        \E c \in 1..Len(ret.seq[i]) : ret.seq[i][c] = 0 /\ call.sequence[i][c] # 0 }

\* total_frames = max(1, floor(length * min(ratio, 1)))
FrameBudget(len, ratio) == Max(1, (len * Min(ratio, RatioDen)) \div RatioDen)

\* C14 as stated: one time_mask call on length >= 2 frames with ratio > 0
\* zeroes at most total_frames = max(1, floor(length * min(ratio, 1))) distinct
\* frames, whatever the chunk count.
C14_FrameBudget ==
    (MaskActive /\ ~ret.raised) =>
        Cardinality(ZeroedFrames) <= FrameBudget(Len(call.sequence), call.ratio)

----------------------------------------------------------------------------
(* collect_data.py: the serial line parser.  A line is a sequence of       *)
(* characters over Alphabet; the digits are "1", "2" and "3".              *)

NFields == 8

Digits == {"1", "2", "3"}

Alphabet == Digits \cup {",", "#", "x", " "}

DigitVal(c) == CASE c = "1" -> 1 [] c = "2" -> 2 [] c = "3" -> 3

\* str.strip(): leading and trailing whitespace removed
RECURSIVE LStrip(_)
LStrip(s) == IF s # <<>> /\ Head(s) = " " THEN LStrip(Tail(s)) ELSE s

RECURSIVE RStrip(_)
RStrip(s) ==
    IF s # <<>> /\ s[Len(s)] = " " THEN RStrip(SubSeq(s, 1, Len(s) - 1)) ELSE s

Strip(s) == RStrip(LStrip(s))

\* str.split(","): always at least one token
RECURSIVE SplitFrom(_, _, _)
SplitFrom(s, i, cur) ==
    IF i > Len(s)
    THEN <<cur>>
    ELSE IF s[i] = ","
         THEN <<cur>> \o SplitFrom(s, i + 1, <<>>)
         ELSE SplitFrom(s, i + 1, Append(cur, s[i]))

Split(s) == SplitFrom(s, 1, <<>>)

RECURSIVE Decimal(_)
Decimal(t) ==
    IF t = <<>> THEN 0
    ELSE 10 * Decimal(SubSeq(t, 1, Len(t) - 1)) + DigitVal(t[Len(t)])

\* float(token): over Alphabet, a token converts exactly when it is a
\* non-empty string of digits; anything else is a ValueError
ToFloat(token) ==
    IF token # <<>> /\ \A i \in 1..Len(token) : token[i] \in Digits
    THEN [ok |-> TRUE, value |-> Decimal(token)]
    ELSE [ok |-> FALSE, value |-> 0]

None == [none |-> TRUE, values |-> <<>>]

\* parse_stream_line without the token-count test
parse_stream_line_anycount(line) ==
    IF line = <<>> \/ Head(line) = "#"
    THEN None
    ELSE LET tokens == Split(line)
             floats == [i \in 1..Len(tokens) |-> ToFloat(Strip(tokens[i]))]
         IN  IF \E i \in 1..Len(tokens) : ~floats[i].ok
             THEN None
             ELSE [none |-> FALSE,
                   values |-> [i \in 1..Len(tokens) |-> floats[i].value]]

parse_stream_line(line) ==
    IF line = <<>> \/ Head(line) = "#"
    THEN None
    ELSE LET tokens == Split(line)
         IN  IF Len(tokens) # NFields
             THEN None
             ELSE LET floats == [i \in 1..Len(tokens) |-> ToFloat(Strip(tokens[i]))]
                  IN  IF \E i \in 1..Len(tokens) : ~floats[i].ok
                      THEN None
                      ELSE [none |-> FALSE,
                            values |-> [i \in 1..Len(tokens) |-> floats[i].value]]

\* collect_trial's loop body past the parse, and main's append of the sample
\* it yields: the row list and echo count after
CollectParsed(rowlist, nechoed, parsed, label, quiet) ==
    IF parsed.none \/ parsed.values = <<>>
    THEN [rows |-> rowlist, echoed |-> nechoed, accepted |-> FALSE]
    ELSE [rows |-> Append(rowlist, Append(parsed.values, label)),
          echoed |-> IF quiet THEN nechoed ELSE nechoed + 1,
          accepted |-> TRUE]

\* readline().decode().strip(), then parse_stream_line
ParseRaw(raw) == parse_stream_line(Strip(raw))

\* one pass of collect_trial's loop body over the line a read returned
CollectLine(rowlist, nechoed, raw, label, quiet) ==
    CollectParsed(rowlist, nechoed, ParseRaw(raw), label, quiet)

----------------------------------------------------------------------------
(* Specification SpecParse: one line from the device through the loop body *)
(* of collect_trial.  Lines are NFields - 1 .. NFields + 1 tokens (and a   *)
(* few short ones), all "1" but for one token drawn from OddTokens.        *)

OddTokens ==
    { <<"2">>, <<"1", "2">>, <<" ", "3">>, <<"1", " ">>, <<"x">>, <<>>,
      <<"#", "1">>, <<"1", " ", "2">>, <<"1", "#">>, <<" ">> }

TokenLists ==
    { [i \in 1..n |-> <<"1">>] : n \in 0..(NFields + 1) }
    \cup { [i \in 1..n |-> IF i = k THEN odd ELSE <<"1">>] :
             n \in 1..(NFields + 1), k \in 1..(NFields + 1), odd \in OddTokens }

RECURSIVE JoinComma(_)
JoinComma(toks) ==
    IF toks = <<>> THEN <<>>
    ELSE IF Len(toks) = 1 THEN toks[1]
    ELSE toks[1] \o <<",">> \o JoinComma(Tail(toks))

InitParse ==
    /\ call \in { [op |-> "readline", toks |-> t, raw |-> pad \o JoinComma(t) \o pad,
                   rows |-> r, label |-> "tap", quiet |-> q] :
                  t \in TokenLists, pad \in {<<>>, <<" ">>},
                  r \in {<<>>, <<<<3, 1, 1, 1, 1, 1, 1, 1, "hug">>>>},
                  q \in BOOLEAN }
    /\ ret = [rows |-> <<>>, echoed |-> 0, accepted |-> FALSE]
    /\ cpc = "ready"
    /\ IdleCollect
    /\ IdleInfer
    /\ IdleAug

CallCollectLine ==
    /\ cpc = "ready"
    /\ call.op = "readline"
    /\ ret' = CollectLine(call.rows, 0, call.raw, call.label, call.quiet)
    /\ cpc' = "returned"
    /\ UNCHANGED <<call, notCall>>

NextParse == CallCollectLine

SpecParse == InitParse /\ [][NextParse]_vars

\* the tokens that are numbers, with or without blanks around them
NumericTokens ==
    { <<"1">>, <<"2">>, <<"1", "2">>, <<" ", "3">>, <<"1", " ">> }

\* what the claim accepts: a non-empty line that does not begin with '#' and
\* is exactly NFields comma-separated numbers
ClaimAccepts(toks, raw) ==
    /\ Strip(raw) # <<>>
    /\ Strip(raw)[1] # "#"
    /\ Len(toks) = 8
    /\ \A i \in 1..Len(toks) : toks[i] \in NumericTokens

\* C5: a line read from the device is accepted exactly when it is non-empty,
\* does not begin with '#' and is exactly 8 comma-separated numbers; an accepted
\* line appends one row (its 8 values and the label), every other line leaves
\* the row list as it was.
C5_ParserAccepts ==
    (cpc = "returned" /\ call.op = "readline") =>
        /\ ret.accepted <=> ClaimAccepts(call.toks, call.raw)
        /\ ret.accepted => /\ Len(ret.rows) = Len(call.rows) + 1
                           /\ SubSeq(ret.rows, 1, Len(call.rows)) = call.rows
                           /\ Len(ret.rows[Len(ret.rows)]) = 9
                           /\ ret.rows[Len(ret.rows)][9] = call.label
        /\ ~ret.accepted => ret.rows = call.rows

\* C5 witnesses: a 7-token line of numbers was read and dropped
C5_Witness ==
    /\ cpc = "returned" /\ call.op = "readline"
    /\ Len(call.toks) = 7
    /\ \A i \in 1..7 : call.toks[i] = <<"1">>
    /\ ~ret.accepted
    /\ ret.rows = call.rows /\ call.rows # <<>>

----------------------------------------------------------------------------
(* collect_data.py: main and collect_trial.  Time is in seconds; a trial's *)
(* elapsed time is followed up to its duration, where the loop ends.       *)

MaxTrials == 1       \* largest --trials
MaxDuration == 2     \* longest --duration, in seconds
MaxReads == 3        \* lines and read errors the device delivers in a run

CSV_HEADER ==
    <<"timestamp_ms", "pressure", "ax", "ay", "az", "gx", "gy", "gz", "label">>

DigitChar(n) == CASE n = 1 -> "1" [] n = 2 -> "2" [] n = 3 -> "3"

\* what the device sends: a sample stamped ts, a sample short of one field, a
\* comment; each ends in a newline (a blank, to strip())
DeviceKinds == {"good", "short", "comment"}

DeviceLine(kind, ts) ==
    CASE kind = "good" ->
            JoinComma([i \in 1..8 |-> IF i = 1 THEN <<DigitChar(ts)>> ELSE <<"1">>]) \o <<" ">>
      [] kind = "short" ->
            JoinComma([i \in 1..7 |-> IF i = 1 THEN <<DigitChar(ts)>> ELSE <<"1">>]) \o <<" ">>
      [] kind = "comment" -> <<"#", " ", "x", " ">>

\* what ParseRaw makes of each line the device can send
ParsedDeviceLine ==
    [kind \in DeviceKinds \cup {"timeout"}, ts \in 1..3 |->
        IF kind = "timeout" THEN ParseRaw(<<>>) ELSE ParseRaw(DeviceLine(kind, ts))]

\* the log of deliveries holds MaxReads entries: a sample is always logged (the
\* device sends no more than the log holds), other events while there is room
Logged(entry) == IF Len(history) < MaxReads THEN Append(history, entry) ELSE history

NextStamp == (Cardinality({ i \in 1..Len(history) : history[i].kind = "good" }) % 3) + 1

InitCollect ==
    /\ colArgs \in { [labels |-> ls, trials |-> n, duration |-> d, quiet |-> q] :
                     ls \in {<<"tap", "hug">>}, n \in 0..MaxTrials,
                     d \in 0..MaxDuration, q \in BOOLEAN }
    /\ colPc = "start"
    /\ colLabel = 1
    /\ colTrial = 0
    /\ elapsed = 0
    /\ rows = <<>>
    /\ csv = NoFile
    /\ echoed = 0
    /\ history = <<>>
    /\ lastEvent = "none"
    /\ IdleCall
    /\ IdleInfer
    /\ IdleAug

\* ensure_output_dir, then open_serial succeeds
OpenSerialOk ==
    /\ colPc = "start"
    /\ colPc' = "next"
    /\ UNCHANGED <<colArgs, colLabel, colTrial, elapsed, rows, csv, echoed,
                   history, lastEvent, notCollect>>

\* open_serial catches SerialException and exits
OpenSerialFails ==
    /\ colPc = "start"
    /\ colPc' = "exit_open"
    /\ UNCHANGED <<colArgs, colLabel, colTrial, elapsed, rows, csv, echoed,
                   history, lastEvent, notCollect>>

\* the two for loops of main: the next trial is prompted for and started
BeginTrial ==
    /\ colPc = "next"
    /\ colLabel <= Len(colArgs.labels)
    /\ colTrial < colArgs.trials
    /\ colTrial' = colTrial + 1
    /\ elapsed' = 0
    /\ colPc' = "check"
    /\ UNCHANGED <<colArgs, colLabel, rows, csv, echoed, history, lastEvent, notCollect>>

NextLabel ==
    /\ colPc = "next"
    /\ colLabel <= Len(colArgs.labels)
    /\ colTrial >= colArgs.trials
    /\ colLabel' = colLabel + 1
    /\ colTrial' = 0
    /\ UNCHANGED <<colArgs, colPc, elapsed, rows, csv, echoed, history, lastEvent,
                   notCollect>>

LabelsDone ==
    /\ colPc = "next"
    /\ colLabel > Len(colArgs.labels)
    /\ colPc' = "finish"
    /\ UNCHANGED <<colArgs, colLabel, colTrial, elapsed, rows, csv, echoed,
                   history, lastEvent, notCollect>>

\* while time.time() - start_time < duration
LoopTest ==
    /\ colPc = "check"
    /\ colPc' = IF elapsed < colArgs.duration THEN "read" ELSE "next"
    /\ lastEvent' = "none"
    /\ UNCHANGED <<colArgs, colLabel, colTrial, elapsed, rows, csv, echoed,
                   history, notCollect>>

\* ser.readline() returns a line
ReadLine ==
    /\ colPc = "read"
    /\ \E kind \in DeviceKinds :
         /\ kind = "good" => Len(history) < MaxReads
         /\ LET r == CollectParsed(rows, echoed, ParsedDeviceLine[kind, NextStamp],
                                    colArgs.labels[colLabel], colArgs.quiet)
            IN  /\ rows' = r.rows
                /\ echoed' = r.echoed
                /\ history' = Logged([kind |-> kind, ts |-> NextStamp,
                                       label |-> colLabel, trial |-> colTrial])
    /\ lastEvent' = "none"
    /\ colPc' = "check"
    /\ UNCHANGED <<colArgs, colLabel, colTrial, elapsed, csv, notCollect>>

\* ser.readline() returns nothing after its 1-second timeout
ReadTimeout ==
    /\ colPc = "read"
    /\ LET r == CollectParsed(rows, echoed, ParsedDeviceLine["timeout", 1],
                              colArgs.labels[colLabel], colArgs.quiet)
       IN  rows' = r.rows /\ echoed' = r.echoed
    /\ elapsed' = Min(colArgs.duration, elapsed + 1)
    /\ lastEvent' = "none"
    /\ colPc' = "check"
    /\ UNCHANGED <<colArgs, colLabel, colTrial, csv, history, notCollect>>

\* a SerialException that ends the run instead of the read
ReadError_fatal ==
    /\ colPc = "read"
    /\ history' = Logged([kind |-> "error", ts |-> 0,
                          label |-> colLabel, trial |-> colTrial])
    /\ lastEvent' = "error"
    /\ colPc' = "exit_error"
    /\ UNCHANGED <<colArgs, colLabel, colTrial, elapsed, rows, csv, echoed, notCollect>>

\* ser.readline() raises SerialException: print and continue
ReadError ==
    /\ colPc = "read"
    /\ history' = Logged([kind |-> "error", ts |-> 0,
                          label |-> colLabel, trial |-> colTrial])
    /\ lastEvent' = "error"
    /\ colPc' = "check"
    /\ UNCHANGED <<colArgs, colLabel, colTrial, elapsed, rows, csv, echoed, notCollect>>

\* a second passes while a trial records
Tick ==
    /\ colPc \in {"check", "read"}
    /\ elapsed < colArgs.duration
    /\ elapsed' = elapsed + 1
    /\ UNCHANGED <<colArgs, colPc, colLabel, colTrial, rows, csv, echoed,
                   history, lastEvent, notCollect>>

\* if not rows: sys.exit(...)
ExitNoSamples ==
    /\ colPc = "finish"
    /\ rows = <<>>
    /\ colPc' = "exit_empty"
    /\ UNCHANGED <<colArgs, colLabel, colTrial, elapsed, rows, csv, echoed,
                   history, lastEvent, notCollect>>

\* the CSV file written without the test for an empty row list
SaveCsv_unguarded ==
    /\ colPc = "finish"
    /\ csv' = [exists |-> TRUE, lines |-> <<CSV_HEADER>> \o rows]
    /\ colPc' = "saved"
    /\ UNCHANGED <<colArgs, colLabel, colTrial, elapsed, rows, echoed,
                   history, lastEvent, notCollect>>

\* the header and the rows are written to the CSV file
SaveCsv ==
    /\ colPc = "finish"
    /\ rows # <<>>
    /\ csv' = [exists |-> TRUE, lines |-> <<CSV_HEADER>> \o rows]
    /\ colPc' = "saved"
    /\ UNCHANGED <<colArgs, colLabel, colTrial, elapsed, rows, echoed,
                   history, lastEvent, notCollect>>

ProgramCollect ==
    \/ OpenSerialOk \/ OpenSerialFails
    \/ BeginTrial \/ NextLabel \/ LabelsDone
    \/ LoopTest \/ ReadLine \/ ReadTimeout \/ ReadError
    \/ ExitNoSamples \/ SaveCsv

NextCollect == ProgramCollect \/ Tick

SpecCollect == InitCollect /\ [][NextCollect]_vars

\* every read returns, and time advances
SpecCollectFair ==
    InitCollect /\ [][NextCollect]_vars /\ WF_vars(ProgramCollect) /\ WF_vars(Tick)

\* the rows the device's samples make: each sample delivered, in order of
\* delivery, with the label of the trial during which it was read
RECURSIVE SamplesOf(_, _)
SamplesOf(hist, labels) ==
    IF hist = <<>> THEN <<>>
    ELSE LET e == Head(hist)
         IN  (IF e.kind = "good"
              THEN << <<e.ts, 1, 1, 1, 1, 1, 1, 1, labels[e.label]>> >>
              ELSE <<>>) \o SamplesOf(Tail(hist), labels)

\* deliveries follow the labels in the given order and the trials 1..N in each
InCaptureOrder(hist) ==
    \A i, j \in 1..Len(hist) :
        i < j => \/ hist[i].label < hist[j].label
                 \/ (hist[i].label = hist[j].label /\ hist[i].trial <= hist[j].trial)

CollectEnded == colPc \in {"exit_open", "exit_empty", "saved", "exit_error"}

Recording == colPc \in {"check", "read"}

\* C7: a serial read error leaves the trial reading and the row list as it
\* was; the row list always holds every sample delivered so far, those before
\* and those after an error; and no trial records forever, whatever the reads
\* return, provided each read returns and time advances (between two trials
\* main is outside collect_trial, so a trial that never ended would leave the
\* program recording from some point on).
C7_ErrorsTolerated ==
    /\ [][(lastEvent = "none" /\ lastEvent' = "error") =>
            (colPc' = "check" /\ rows' = rows /\ colLabel' = colLabel
             /\ colTrial' = colTrial)]_vars
    /\ [](~CollectEnded => rows = SamplesOf(history, colArgs.labels))
    /\ []<>(~Recording)

\* C7 witness: a sample, then a read error, then another sample in the same
\* trial, both samples in the row list
C7_Witness ==
    /\ Len(history) = 3
    /\ history[1].kind = "good" /\ history[2].kind = "error" /\ history[3].kind = "good"
    /\ history[1].trial = history[3].trial /\ history[1].label = history[3].label
    /\ Len(rows) = 2
    /\ colPc = "check"

----------------------------------------------------------------------------
(* sequence_infer.py.  sequence_np is held as integer cells over a common  *)
(* denominator den (1 until the low-pass filter divides by its window);    *)
(* a standard deviation is compared through its square: std <= t exactly   *)
(* when t >= 0 and n * sum(x^2) - sum(x)^2 <= (t * n * den)^2.  A           *)
(* probability is in percent.                                              *)

InfMaxLen == 3       \* longest input sequence (frames)
MaxWindow == 3       \* largest --low-pass-window

RECURSIVE SumSeq(_)
SumSeq(xs) == IF xs = <<>> THEN 0 ELSE Head(xs) + SumSeq(Tail(xs))

Abs(x) == IF x >= 0 THEN x ELSE -x

\* sequence[:, c] for a 0-based column c
Column(cells, c) == [i \in 1..Len(cells) |-> cells[i][c + 1]]

\* n^2 times the variance of xs (np.std squared, times n^2)
VarNum(xs) == Len(xs) * SumSeq([i \in 1..Len(xs) |-> xs[i] * xs[i]]) - SumSeq(xs) * SumSeq(xs)

SetMax(S) == CHOOSE x \in S : \A y \in S : y <= x

\* load_sequence: ValueError when the payload has no (or empty) features
load_sequence(payload) ==
    IF payload.kind # "ok" \/ payload.features = <<>>
    THEN [raised |-> TRUE, cells |-> <<>>, den |-> 1]
    ELSE [raised |-> FALSE, cells |-> payload.features, den |-> 1]

\* np.convolve(column, ones(window) / window, mode="same") at 0-based row i,
\* times window, for window <= rows
SameSum(xs, window, i) ==
    LET hi == i + ((window - 1) \div 2)
        lo == hi - window + 1
    IN  SumSeq([k \in 1..window |->
                  IF lo + k - 1 >= 0 /\ lo + k - 1 < Len(xs) THEN xs[lo + k] ELSE 0])

\* low_pass_filter without the early return
low_pass_filter_always(seq, window) ==
    IF window > Len(seq.cells)
    THEN [raised |-> TRUE, cells |-> seq.cells, den |-> seq.den]
    ELSE [raised |-> FALSE,
          cells |-> [i \in 1..Len(seq.cells) |->
                       [c \in 1..Len(seq.cells[i]) |->
                          SameSum(Column(seq.cells, c - 1), window, i - 1)]],
          den |-> seq.den * window]

\* low_pass_filter: the assignment of a convolution longer than the column
\* (window > rows) raises ValueError
low_pass_filter(seq, window) ==
    IF window <= 1 \/ Len(seq.cells) < 2
    THEN [raised |-> FALSE, cells |-> seq.cells, den |-> seq.den]
    ELSE IF window > Len(seq.cells)
         THEN [raised |-> TRUE, cells |-> seq.cells, den |-> seq.den]
         ELSE [raised |-> FALSE,
               cells |-> [i \in 1..Len(seq.cells) |->
                            [c \in 1..Len(seq.cells[i]) |->
                               SameSum(Column(seq.cells, c - 1), window, i - 1)]],
               den |-> seq.den * window]

\* compute_idle_stats: np.max over no column (a frame narrower than 5) raises
compute_idle_stats(seq) ==
    LET width == Shape1(seq.cells)
        accel == { c \in 1..3 : c < width }
        gyro == { c \in 4..6 : c < width }
        pressure == Column(seq.cells, 0)
    IN  IF accel = {} \/ gyro = {}
        THEN [NoStats EXCEPT !.raised = TRUE]
        ELSE [raised |-> FALSE,
              n |-> Len(seq.cells),
              den |-> seq.den,
              pressure_var |-> VarNum(pressure),
              pressure_abs |-> SumSeq([i \in 1..Len(pressure) |-> Abs(pressure[i])]),
              accel_var_max |-> SetMax({ VarNum(Column(seq.cells, c)) : c \in accel }),
              gyro_var_max |-> SetMax({ VarNum(Column(seq.cells, c)) : c \in gyro })]

\* std <= threshold, with std^2 = var / (n * den)^2
StdAtMost(var, n, den, threshold) ==
    threshold >= 0 /\ var <= (threshold * n * den) * (threshold * n * den)

\* detect_idle with the gyroscope test left out
detect_idle_nogyro(stats, args) ==
    /\ StdAtMost(stats.pressure_var, stats.n, stats.den, args.idle_pressure_std)
    /\ stats.pressure_abs <= args.idle_pressure_mean * stats.n * stats.den
    /\ StdAtMost(stats.accel_var_max, stats.n, stats.den, args.idle_accel_std)

detect_idle(stats, args) ==
    /\ StdAtMost(stats.pressure_var, stats.n, stats.den, args.idle_pressure_std)
    /\ stats.pressure_abs <= args.idle_pressure_mean * stats.n * stats.den
    /\ StdAtMost(stats.accel_var_max, stats.n, stats.den, args.idle_accel_std)
    /\ StdAtMost(stats.gyro_var_max, stats.n, stats.den, args.idle_gyro_std)

\* {label: (1.0 if label == idle_label else 0.0) for label in labels}
IdleProbabilities(labels, idle_label) ==
    [l \in Elems(labels) |-> IF l = idle_label THEN 100 ELSE 0]

\* {labels[i]: probs[i] for i in range(len(labels))}: a later duplicate wins
NetProbabilities(labels, probs) ==
    [l \in Elems(labels) |->
        probs[SetMax({ i \in 1..Len(labels) : labels[i] = l })]]

\* np.argmax: the first index of the largest value (1-based here)
ArgMax(probs) ==
    CHOOSE i \in 1..Len(probs) :
        /\ \A j \in 1..Len(probs) : probs[j] <= probs[i]
        /\ \A j \in 1..(i - 1) : probs[j] < probs[i]

\* input sequences: "still" is constant, "press" swings the pressure, "high"
\* holds a large negative pressure, "shake" swings an accelerometer axis,
\* "spin" swings the last gyroscope axis; frames are cut to the width asked for
InputKinds == {"still", "press", "high", "shake", "spin"}

InputCell(kind, i, c) ==
    CASE c = 0 -> (CASE kind = "press" -> IF i % 2 = 1 THEN 0 ELSE 14
                     [] kind = "high" -> -20
                     [] OTHER -> 10)
      [] c = 2 -> IF kind = "shake" /\ i % 2 = 0 THEN 7 ELSE 1
      [] c = 6 -> IF kind = "spin" /\ i % 2 = 0 THEN 7 ELSE 1
      [] OTHER -> 1

InputFeatures(kind, len, width) ==
    [i \in 1..len |-> [c \in 1..width |-> InputCell(kind, i, c - 1)]]

InputWidths == {1, 4, 7}

Payloads ==
    { [kind |-> "blank"], [kind |-> "nofeatures"] }
    \cup { [kind |-> "ok", features |-> InputFeatures(k, n, w)] :
             k \in InputKinds, n \in 1..InfMaxLen, w \in InputWidths }

LabelLists == { <<"idle", "tap">>, <<"tap", "hug">>, <<"tap", "idle", "tap">> }

\* what softmax can return for n labels, in percent
ProbVectors(n) ==
    IF n = 2 THEN { <<100, 0>>, <<50, 50>>, <<25, 75>> }
    ELSE { <<50, 25, 25>>, <<25, 25, 50>>, <<0, 50, 50>> }

Thresholds ==
    { [idle_pressure_std |-> 5, idle_pressure_mean |-> 15, idle_accel_std |-> 2,
       idle_gyro_std |-> 2],
      [idle_pressure_std |-> 0, idle_pressure_mean |-> 30, idle_accel_std |-> 0,
       idle_gyro_std |-> 0],
      [idle_pressure_std |-> 9, idle_pressure_mean |-> 15, idle_accel_std |-> 5,
       idle_gyro_std |-> -1] }

InitInfer ==
    /\ infArgs \in { [auto_idle |-> a, idle_label |-> "idle", low_pass_window |-> w,
                      idle_pressure_std |-> t.idle_pressure_std,
                      idle_pressure_mean |-> t.idle_pressure_mean,
                      idle_accel_std |-> t.idle_accel_std,
                      idle_gyro_std |-> t.idle_gyro_std] :
                     a \in BOOLEAN, w \in 1..MaxWindow, t \in Thresholds }
    /\ infPayload \in Payloads
    /\ infConfig \in { [labels |-> ls, n_features |-> f] :
                       ls \in LabelLists, f \in InputWidths }
    /\ infPc = "read"
    /\ infSeq = [cells |-> <<>>, den |-> 1]
    /\ infStats = NoStats
    /\ infStdout = <<>>
    /\ infStderr = 0
    /\ infNet = NoNet
    /\ infError = ""
    /\ IdleCall
    /\ IdleCollect
    /\ IdleAug

InfFail(error) ==
    /\ infPc' = "failed"
    /\ infError' = error

\* the payload is read from --input or from stdin; blank stdin is fatal;
\* then the config is read
InfReadInput ==
    /\ infPc = "read"
    /\ IF infPayload.kind = "blank"
       THEN InfFail("ValueError: no input")
       ELSE infPc' = "load" /\ UNCHANGED infError
    /\ UNCHANGED <<infArgs, infPayload, infConfig, infSeq, infStats, infStdout,
                   infStderr, infNet, notInfer>>

InfLoadSequence ==
    /\ infPc = "load"
    /\ LET r == load_sequence(infPayload)
       IN  IF r.raised
           THEN InfFail("ValueError: no features") /\ UNCHANGED infSeq
           ELSE /\ infSeq' = [cells |-> r.cells, den |-> r.den]
                /\ infPc' = "width"
                /\ UNCHANGED infError
    /\ UNCHANGED <<infArgs, infPayload, infConfig, infStats, infStdout,
                   infStderr, infNet, notInfer>>

\* the feature-width check left out
InfCheckWidth_skipped ==
    /\ infPc = "width"
    /\ infPc' = "filter"
    /\ UNCHANGED <<infArgs, infPayload, infConfig, infSeq, infStats, infStdout,
                   infStderr, infNet, infError, notInfer>>

\* if sequence_np.shape[1] != len(config["feature_names"]): raise ValueError
InfCheckWidth ==
    /\ infPc = "width"
    /\ IF Shape1(infSeq.cells) # infConfig.n_features
       THEN InfFail("ValueError: feature width")
       ELSE infPc' = "filter" /\ UNCHANGED infError
    /\ UNCHANGED <<infArgs, infPayload, infConfig, infSeq, infStats, infStdout,
                   infStderr, infNet, notInfer>>

InfLowPass ==
    /\ infPc = "filter"
    /\ LET r == low_pass_filter(infSeq, infArgs.low_pass_window)
       IN  IF r.raised
           THEN InfFail("ValueError: broadcast") /\ UNCHANGED infSeq
           ELSE /\ infSeq' = [cells |-> r.cells, den |-> r.den]
                /\ infPc' = "stats"
                /\ UNCHANGED infError
    /\ UNCHANGED <<infArgs, infPayload, infConfig, infStats, infStdout,
                   infStderr, infNet, notInfer>>

\* idle_stats = compute_idle_stats(sequence_np), logged under --auto-idle
InfIdleStats ==
    /\ infPc = "stats"
    /\ LET r == compute_idle_stats(infSeq)
       IN  IF r.raised
           THEN InfFail("ValueError: zero-size array") /\ UNCHANGED <<infStats, infStderr>>
           ELSE /\ infStats' = r
                /\ infStderr' = IF infArgs.auto_idle THEN infStderr + 1 ELSE infStderr
                /\ infPc' = "idle"
                /\ UNCHANGED infError
    /\ UNCHANGED <<infArgs, infPayload, infConfig, infSeq, infStdout, infNet, notInfer>>

\* the idle branch taken whatever the statistics are
InfIdleVerdict_always ==
    /\ infPc = "idle"
    /\ infArgs.auto_idle
    /\ infStdout' = Append(infStdout,
                           [label |-> infArgs.idle_label,
                            probability |-> 100,
                            probabilities |-> IdleProbabilities(infConfig.labels,
                                                                infArgs.idle_label),
                            detected_idle |-> TRUE])
    /\ infPc' = "done"
    /\ UNCHANGED <<infArgs, infPayload, infConfig, infSeq, infStats, infStderr,
                   infNet, infError, notInfer>>

\* if args.auto_idle and detect_idle(idle_stats, args): print the idle result
InfIdleVerdict ==
    /\ infPc = "idle"
    /\ infArgs.auto_idle /\ detect_idle(infStats, infArgs)
    /\ infStdout' = Append(infStdout,
                           [label |-> infArgs.idle_label,
                            probability |-> 100,
                            probabilities |-> IdleProbabilities(infConfig.labels,
                                                                infArgs.idle_label),
                            detected_idle |-> TRUE])
    /\ infPc' = "done"
    /\ UNCHANGED <<infArgs, infPayload, infConfig, infSeq, infStats, infStderr,
                   infNet, infError, notInfer>>

\* otherwise: normalise, build SequenceGRU
InfBuildModel ==
    /\ infPc = "idle"
    /\ ~(infArgs.auto_idle /\ detect_idle(infStats, infArgs))
    /\ infNet' = [infNet EXCEPT !.built = TRUE]
    /\ infPc' = "weights"
    /\ UNCHANGED <<infArgs, infPayload, infConfig, infSeq, infStats, infStdout,
                   infStderr, infError, notInfer>>

\* torch.load and load_state_dict succeed
InfLoadWeights ==
    /\ infPc = "weights"
    /\ infNet' = [infNet EXCEPT !.loaded = TRUE]
    /\ infPc' = "score"
    /\ UNCHANGED <<infArgs, infPayload, infConfig, infSeq, infStats, infStdout,
                   infStderr, infError, notInfer>>

\* torch.load or load_state_dict raises (no file, weights of another shape)
InfLoadWeightsFails ==
    /\ infPc = "weights"
    /\ InfFail("weights")
    /\ UNCHANGED <<infArgs, infPayload, infConfig, infSeq, infStats, infStdout,
                   infStderr, infNet, notInfer>>

\* the forward pass, softmax, argmax and the printed result
InfScore ==
    /\ infPc = "score"
    /\ \E probs \in ProbVectors(Len(infConfig.labels)) :
         LET best_idx == ArgMax(probs)
         IN  infStdout' = Append(infStdout,
                                 [label |-> infConfig.labels[best_idx],
                                  probability |-> probs[best_idx],
                                  probabilities |-> NetProbabilities(infConfig.labels, probs)])
    /\ infNet' = [infNet EXCEPT !.ran = TRUE]
    /\ infPc' = "done"
    /\ UNCHANGED <<infArgs, infPayload, infConfig, infSeq, infStats, infStderr,
                   infError, notInfer>>

NextInfer ==
    \/ InfReadInput \/ InfLoadSequence \/ InfCheckWidth \/ InfLowPass
    \/ InfIdleStats \/ InfIdleVerdict \/ InfBuildModel
    \/ InfLoadWeights \/ InfLoadWeightsFails \/ InfScore

SpecInfer == InitInfer /\ [][NextInfer]_vars

\* a statistic given as n^2 den^2 times a variance is a standard deviation at
\* most t
ClaimStdWithin(var, t) ==
    t >= 0 /\ var <= t * t * infStats.n * infStats.n * infStats.den * infStats.den

\* all four idle statistics are within their thresholds
AllWithinThresholds ==
    /\ ClaimStdWithin(infStats.pressure_var, infArgs.idle_pressure_std)
    /\ infStats.pressure_abs <= infArgs.idle_pressure_mean * infStats.n * infStats.den
    /\ ClaimStdWithin(infStats.accel_var_max, infArgs.idle_accel_std)
    /\ ClaimStdWithin(infStats.gyro_var_max, infArgs.idle_gyro_std)

IsIdleResult(r) == "detected_idle" \in DOMAIN r

LooseThresholds ==
    /\ infArgs.idle_pressure_std = 5 /\ infArgs.idle_pressure_mean = 15
    /\ infArgs.idle_accel_std = 2 /\ infArgs.idle_gyro_std = 2

\* the statistics have been computed and the run has gone on from there
StatsKnown == infStats.n > 0 /\ infPc \in {"weights", "score", "done", "failed"}

WidthMismatch ==
    /\ infPayload.kind = "ok"
    /\ Shape1(infPayload.features) # infConfig.n_features

\* C4: an input whose frame width differs from the number of feature names
\* never gets past the width check: the run ends in the feature-width
\* ValueError, nothing is filtered, no idle statistic is computed or logged,
\* the network is not built, and no result is printed.
C4_WidthFatal ==
    WidthMismatch =>
        /\ infPc \in {"read", "load", "width", "failed"}
        /\ infPc = "failed" => infError = "ValueError: feature width"
        /\ infStdout = <<>>
        /\ infStderr = 0
        /\ infStats = NoStats
        /\ infSeq.den = 1
        /\ infNet = NoNet

\* C4 witness: a 7-wide input against a 4-feature config, with auto-idle on and
\* a window larger than the sequence, ended in the width error
C4_Witness ==
    /\ WidthMismatch
    /\ infPc = "failed" /\ infError = "ValueError: feature width"
    /\ Shape1(infPayload.features) = 7 /\ infConfig.n_features = 4
    /\ infArgs.auto_idle
    /\ infArgs.low_pass_window > Len(infPayload.features)

----------------------------------------------------------------------------
(* The augmentation operations as main applies them.  The array handed     *)
(* from one operation to the next is arr = [cells, den]: integer cells     *)
(* over the common denominator den (time_scale, noise and amplitude_scale  *)
(* produce fractions).  st = [arr, rng, np, raised]: the array, the         *)
(* random.Random object, the state of numpy's global generator, and        *)
(* whether an exception was raised.                                        *)

\* Python's round(a / b) for b > 0: to the nearest integer, ties to even
Round(a, b) ==
    LET q == a \div b
        r == a % b
    IN  IF 2 * r < b THEN q
        ELSE IF 2 * r > b THEN q + 1
        ELSE IF q % 2 = 0 THEN q ELSE q + 1

\* time_scale with int(len * scale) in place of int(round(len * scale))
time_scale_trunc(arr, rng, min_scale, max_scale) ==
    IF Shape0(arr.cells) < 2
    THEN [arr |-> arr, rng |-> rng]
    ELSE LET n == Shape0(arr.cells)
             scale == Uniform(rng, min_scale, max_scale)
             new_len == Max(2, TruncDiv(n * scale, RatioDen * RawMax))
             d == new_len - 1
             Interp(j, c) ==
                 LET pos == j * (n - 1)
                     lo == pos \div d
                     r == pos % d
                 IN  IF r = 0
                     THEN arr.cells[lo + 1][c] * d
                     ELSE arr.cells[lo + 1][c] * d
                          + (arr.cells[lo + 2][c] - arr.cells[lo + 1][c]) * r
         IN  [arr |-> [cells |-> [j \in 1..new_len |->
                                    [c \in 1..Shape1(arr.cells) |-> Interp(j - 1, c)]],
                       den |-> arr.den * d],
              rng |-> RngAdvance(rng)]

\* time_scale: np.linspace(0, len - 1, num=new_len) and np.interp per column;
\* target j is (j * (len - 1)) / (new_len - 1)
time_scale(arr, rng, min_scale, max_scale) ==
    IF Shape0(arr.cells) < 2
    THEN [arr |-> arr, rng |-> rng]
    ELSE LET n == Shape0(arr.cells)
             scale == Uniform(rng, min_scale, max_scale)
             new_len == Max(2, Round(n * scale, RatioDen * RawMax))
             d == new_len - 1
             Interp(j, c) ==
                 LET pos == j * (n - 1)
                     lo == pos \div d
                     r == pos % d
                 IN  IF r = 0
                     THEN arr.cells[lo + 1][c] * d
                     ELSE arr.cells[lo + 1][c] * d
                          + (arr.cells[lo + 2][c] - arr.cells[lo + 1][c]) * r
         IN  [arr |-> [cells |-> [j \in 1..new_len |->
                                    [c \in 1..Shape1(arr.cells) |-> Interp(j - 1, c)]],
                       den |-> arr.den * d],
              rng |-> RngAdvance(rng)]

\* the k-th value (0-based) numpy's generator returns from state np
NpRaw(np, k) == np.draws[((np.pos + k) % Len(np.draws)) + 1]

\* add_noise: one normal deviate per cell, in row-major order; a deviate is
\* (raw - RawMax \div 2) * noise_std
add_noise(arr, np, noise_std) ==
    LET w == Shape1(arr.cells)
    IN  [arr |-> [cells |-> [i \in 1..Len(arr.cells) |->
                               [c \in 1..w |->
                                  arr.cells[i][c] * RatioDen
                                  + (NpRaw(np, (i - 1) * w + (c - 1)) - (RawMax \div 2))
                                    * noise_std * arr.den]],
                  den |-> arr.den * RatioDen],
         np |-> [np EXCEPT !.pos = np.pos + Len(arr.cells) * w]]

\* np.roll(sequence, shift, axis=0)
Roll(cells, shift) ==
    [i \in 1..Len(cells) |-> cells[((i - 1 - shift) % Len(cells)) + 1]]

time_shift(arr, rng, max_ratio) ==
    IF Shape0(arr.cells) < 2 \/ max_ratio <= 0
    THEN [arr |-> arr, rng |-> rng]
    ELSE LET max_shift == Max(1, TruncDiv(Shape0(arr.cells) * max_ratio, RatioDen))
             shift == RandInt(rng, -max_shift, max_shift)
         IN  [arr |-> [arr EXCEPT !.cells = IF shift = 0 THEN arr.cells
                                            ELSE Roll(arr.cells, shift)],
              rng |-> RngAdvance(rng)]

\* amplitude_scale: one uniform factor per column from numpy's generator
amplitude_scale(arr, np, min_scale, max_scale) ==
    IF min_scale <= 0 \/ max_scale <= 0
    THEN [arr |-> arr, np |-> np]
    ELSE [arr |-> [cells |-> [i \in 1..Len(arr.cells) |->
                                [c \in 1..Len(arr.cells[i]) |->
                                   arr.cells[i][c]
                                   * (min_scale * RawMax
                                      + (max_scale - min_scale) * NpRaw(np, c - 1))]],
                   den |-> arr.den * RatioDen * RawMax],
          np |-> [np EXCEPT !.pos = np.pos + Shape1(arr.cells)]]

\* the operation names each CLI's apply_ops dispatches on
SupportedOps(cli) ==
    IF cli = "fixed"
    THEN {"random_crop", "time_scale", "noise", "time_shift", "amplitude_scale",
          "time_mask"}
    ELSE {"random_crop", "time_scale", "noise"}

\* one operation of the chain
ApplyOp(op, st, args) ==
    CASE op \notin SupportedOps(args.cli) -> [st EXCEPT !.raised = "ValueError: unsupported op"]
      [] op = "random_crop" /\ op \in SupportedOps(args.cli) ->
            LET r == random_crop(st.arr.cells, st.rng, args.min_crop_ratio, args.max_crop_ratio)
            IN  [st EXCEPT !.arr.cells = r.seq, !.rng = r.rng]
      [] op = "time_scale" /\ op \in SupportedOps(args.cli) ->
            LET r == time_scale(st.arr, st.rng, args.min_scale, args.max_scale)
            IN  [st EXCEPT !.arr = r.arr, !.rng = r.rng]
      [] op = "noise" /\ op \in SupportedOps(args.cli) ->
            LET r == add_noise(st.arr, st.np, args.noise_std)
            IN  [st EXCEPT !.arr = r.arr, !.np = r.np]
      [] op = "time_shift" /\ op \in SupportedOps(args.cli) ->
            LET r == time_shift(st.arr, st.rng, args.time_shift_ratio)
            IN  [st EXCEPT !.arr = r.arr, !.rng = r.rng]
      [] op = "amplitude_scale" /\ op \in SupportedOps(args.cli) ->
            LET r == amplitude_scale(st.arr, st.np, args.amplitude_scale_min,
                                     args.amplitude_scale_max)
            IN  [st EXCEPT !.arr = r.arr, !.np = r.np]
      [] op = "time_mask" /\ op \in SupportedOps(args.cli) ->
            LET r == time_mask(st.arr.cells, st.rng, args.time_mask_ratio,
                               args.time_mask_chunks, args.time_mask_targets)
            IN  [st EXCEPT !.arr.cells = r.seq, !.rng = r.rng,
                           !.raised = IF r.raised THEN "IndexError" ELSE ""]

\* apply_ops: the chain in the order given, stopping at the first exception
RECURSIVE apply_ops(_, _, _)
apply_ops(st, ops, args) ==
    IF ops = <<>> \/ st.raised # ""
    THEN st
    ELSE apply_ops(ApplyOp(Head(ops), st, args), Tail(ops), args)

----------------------------------------------------------------------------
(* main of the two augmentation CLIs ("fixed": python/augment_sequences.py, *)
(* "variable": sequence_pipeline/python/augment_sequences.py).  An input    *)
(* path is [dir, stem]; an output path is [dir, name] with dir the session *)
(* subdirectory ("" for the output directory itself) and name the tuple    *)
(* <<stem, suffix, index>> that the file name is formatted from.           *)

MaxCopies == 2       \* largest --copies

Dirs == {"raw/s1", "raw/s2"}

Stems == {"a", "b"}

\* Path(path).parent.name
ParentName(dir) == IF dir = "raw/s1" THEN "s1" ELSE "s2"

\* the order of file names: "a.json" < "b.json"
StemRank(stem) == IF stem = "a" THEN 1 ELSE 2

AllPaths == { [dir |-> d, stem |-> n] : d \in Dirs, n \in Stems }

\* the Sequence Records an input file can hold
RecordKinds == {"absent", "ok", "plain", "narrow", "empty", "nolabel", "badjson"}

FileOf(kind) ==
    CASE kind = "absent" -> [exists |-> FALSE]
      [] kind = "badjson" -> [exists |-> TRUE, json |-> FALSE]
      [] kind = "ok" -> [exists |-> TRUE, json |-> TRUE, label |-> "tap",
                         features |-> Frames(MaxLen - 2, 7), sample_ms |-> 10,
                         feature_names |-> "names", metadata |-> "meta"]
      [] kind = "plain" -> [exists |-> TRUE, json |-> TRUE, label |-> "hug",
                            features |-> Frames(2, 7)]
      [] kind = "narrow" -> [exists |-> TRUE, json |-> TRUE, label |-> "tap",
                             features |-> Frames(2, 1)]
      [] kind = "empty" -> [exists |-> TRUE, json |-> TRUE, features |-> <<>>]
      [] kind = "nolabel" -> [exists |-> TRUE, json |-> TRUE,
                              features |-> Frames(2, 7)]

\* payload.get(key, default)
Get(payload, key, default) == IF key \in DOMAIN payload THEN payload[key] ELSE default

\* random.Random(seed) and np.random.seed(seed): each generator's stream is a
\* function of the seed, and the two generators are separate
SeedRandom(seed) ==
    [draws |-> [i \in 1..5 |-> (seed * (i + 1) + i * i) % (RawMax + 1)], pos |-> 0]

SeedNumpy(seed) ==
    [draws |-> [i \in 1..5 |-> (seed + 2 * i) % (RawMax + 1)], pos |-> 0]

\* sorted(...) of the paths of one directory
Sorted(paths) ==
    CHOOSE out \in [1..Len(paths) -> Elems(paths)] :
        /\ \A p \in Elems(paths) : \E i \in 1..Len(paths) : out[i] = p
        /\ \A i, j \in 1..Len(paths) :
              i < j => StemRank(out[i].stem) <= StemRank(out[j].stem)

\* load_sequences that keeps the order glob returned
RECURSIVE load_sequences_unsorted(_, _)
load_sequences_unsorted(data_dirs, glob) ==
    IF data_dirs = <<>> THEN <<>>
    ELSE glob[Head(data_dirs)] \o load_sequences_unsorted(Tail(data_dirs), glob)

\* load_sequences: per directory, the sorted result of glob("*.json"); the
\* caller raises FileNotFoundError when the list is empty
RECURSIVE load_sequences(_, _)
load_sequences(data_dirs, glob) ==
    IF data_dirs = <<>> THEN <<>>
    ELSE Sorted(glob[Head(data_dirs)]) \o load_sequences(Tail(data_dirs), glob)

\* what glob("*.json") can return for each directory: the files that exist,
\* in any order
GlobResults ==
    { g \in [Dirs -> UNION { [1..n -> AllPaths] : n \in 0..Cardinality(Stems) }] :
        \A d \in Dirs :
            /\ \A i, j \in 1..Len(g[d]) : i # j => g[d][i] # g[d][j]
            /\ Elems(g[d]) = { q \in AllPaths : q.dir = d /\ augFiles[q].exists } }

\* path.write_text(...): the file at path now holds content
WriteFile(out, path, content) ==
    [q \in (DOMAIN out) \cup {path} |-> IF q = path THEN content ELSE out[q]]

\* save_sequence taking frame_count from sequence.shape[1]
save_sequence_width(run, base_payload, arr, suffix, index, session_name) ==
    LET path == [dir |-> session_name,
                 name |-> <<base_payload.source.stem, suffix, index>>]
        payload == [label |-> base_payload.label,
                    sample_ms |-> base_payload.sample_ms,
                    feature_names |-> base_payload.feature_names,
                    metadata |-> base_payload.metadata,
                    source |-> base_payload.source,
                    frame_count |-> Shape1(arr.cells),
                    features |-> arr]
    IN  [run EXCEPT !.out = WriteFile(run.out, path, payload),
                    !.written = run.written + 1,
                    !.writes = Append(run.writes,
                                      [src |-> base_payload.source, suffix |-> suffix,
                                       index |-> index, path |-> path])]

\* save_sequence on the run state run = [out, rng, np, written, writes, raised]
save_sequence(run, base_payload, arr, suffix, index, session_name) ==
    LET path == [dir |-> session_name,
                 name |-> <<base_payload.source.stem, suffix, index>>]
        payload == [label |-> base_payload.label,
                    sample_ms |-> base_payload.sample_ms,
                    feature_names |-> base_payload.feature_names,
                    metadata |-> base_payload.metadata,
                    source |-> base_payload.source,
                    frame_count |-> Shape0(arr.cells),
                    features |-> arr]
    IN  [run EXCEPT !.out = WriteFile(run.out, path, payload),
                    !.written = run.written + 1,
                    !.writes = Append(run.writes,
                                      [src |-> base_payload.source, suffix |-> suffix,
                                       index |-> index, path |-> path])]

\* the copies loop running over range(1, args.copies): one copy short
RECURSIVE CopiesLoop_short(_, _, _, _, _, _)
CopiesLoop_short(copy_idx, run, base_payload, features, session_name, args) ==
    IF copy_idx >= args.copies \/ run.raised # ""
    THEN run
    ELSE LET st == apply_ops([arr |-> [cells |-> features, den |-> 1],
                              rng |-> run.rng, np |-> run.np, raised |-> ""],
                             args.ops, args)
             run1 == [run EXCEPT !.rng = st.rng, !.np = st.np, !.raised = st.raised]
         IN  IF st.raised # ""
             THEN run1
             ELSE CopiesLoop_short(copy_idx + 1,
                                   save_sequence(run1, base_payload, st.arr, "aug",
                                                 copy_idx, session_name),
                                   base_payload, features, session_name, args)

\* for copy_idx in range(1, args.copies + 1): apply_ops, save_sequence
RECURSIVE CopiesLoop(_, _, _, _, _, _)
CopiesLoop(copy_idx, run, base_payload, features, session_name, args) ==
    IF copy_idx > args.copies \/ run.raised # ""
    THEN run
    ELSE LET st == apply_ops([arr |-> [cells |-> features, den |-> 1],
                              rng |-> run.rng, np |-> run.np, raised |-> ""],
                             args.ops, args)
             run1 == [run EXCEPT !.rng = st.rng, !.np = st.np, !.raised = st.raised]
         IN  IF st.raised # ""
             THEN run1
             ELSE CopiesLoop(copy_idx + 1,
                             save_sequence(run1, base_payload, st.arr, "aug", copy_idx,
                                           session_name),
                             base_payload, features, session_name, args)

\* the body of main's loop for one input path
ProcessFile(run, path, file, args) ==
    IF ~file.json
    THEN [run EXCEPT !.raised = "JSONDecodeError"]
    ELSE LET features == Get(file, "features", <<>>)
         IN  IF features = <<>>
             THEN run
             ELSE IF "label" \notin DOMAIN file
             THEN [run EXCEPT !.raised = "KeyError: label"]
             ELSE LET base_payload ==
                          [label |-> file.label,
                           sample_ms |-> Get(file, "sample_ms", 20),
                           feature_names |-> Get(file, "feature_names", "None"),
                           metadata |-> Get(file, "metadata", "None"),
                           source |-> path]
                      session_name ==
                          IF args.cli = "fixed" /\ args.split_by_session
                          THEN ParentName(path.dir) ELSE ""
                      run1 == IF args.include_original
                              THEN save_sequence(run, base_payload,
                                                 [cells |-> features, den |-> 1],
                                                 "orig", 0, session_name)
                              ELSE run
                  IN  IF args.ops = <<>>
                      THEN run1
                      ELSE CopiesLoop(1, run1, base_payload, features, session_name, args)

\* the operation parameters of a run (ratios are numerators over RatioDen)
OpParams ==
    [min_crop_ratio |-> 2, max_crop_ratio |-> 3, min_scale |-> 3, max_scale |-> 5,
     noise_std |-> 1, time_shift_ratio |-> 1, amplitude_scale_min |-> 3,
     amplitude_scale_max |-> 5, time_mask_ratio |-> 2, time_mask_chunks |-> 1,
     time_mask_targets |-> <<"gyroscope">>]

\* the --ops lists tried with each CLI; "bogus" is no operation of either, and
\* "time_mask" is none of the variable-length CLI
OpLists(cli) ==
    IF cli = "fixed"
    THEN { <<"random_crop", "time_scale", "noise">>, <<"time_mask">>,
           <<"time_shift", "amplitude_scale">>, <<"bogus">> }
    ELSE { <<"random_crop", "noise">>, <<"time_scale">>, <<"time_mask">> }

\* the command lines: the variable-length CLI has one --data-dir and no
\* --split-by-session
CommandLines ==
    { [cli |-> c.cli, data_dirs |-> c.data_dirs, split_by_session |-> c.split,
       ops |-> o, copies |-> k, seed |-> sd, include_original |-> io] :
        c \in { [cli |-> "variable", data_dirs |-> <<"raw/s1">>, split |-> FALSE],
                [cli |-> "fixed", data_dirs |-> <<"raw/s1">>, split |-> FALSE],
                [cli |-> "fixed", data_dirs |-> <<"raw/s1", "raw/s2">>, split |-> FALSE],
                [cli |-> "fixed", data_dirs |-> <<"raw/s2", "raw/s1">>, split |-> TRUE] },
        o \in OpLists("fixed") \cup OpLists("variable"),
        k \in (-1)..MaxCopies, sd \in {1, 2}, io \in BOOLEAN }

\* the contents of the input directories
InputTrees ==
    { [q \in AllPaths |->
         FileOf(CASE q = [dir |-> "raw/s1", stem |-> "a"] -> ka
                  [] q = [dir |-> "raw/s1", stem |-> "b"] -> kb
                  [] q = [dir |-> "raw/s2", stem |-> "a"] -> kc
                  [] OTHER -> "absent")] :
        ka \in {"absent", "ok", "empty", "nolabel", "badjson"},
        kb \in {"absent", "plain", "narrow", "nolabel"},
        kc \in {"absent", "ok"} }

\* a file left in the output directory by an earlier run
StaleOutput ==
    WriteFile(<<>>, [dir |-> "", name |-> <<"a", "orig", 0>>],
              [label |-> "old", sample_ms |-> 20, feature_names |-> "None",
               metadata |-> "None", source |-> [dir |-> "raw/s1", stem |-> "a"],
               frame_count |-> 0, features |-> [cells |-> <<>>, den |-> 1]])

InitAug ==
    /\ augArgs \in { [f \in DOMAIN c \cup DOMAIN OpParams |->
                        IF f \in DOMAIN c THEN c[f] ELSE OpParams[f]] :
                     c \in { c \in CommandLines : c.ops \in OpLists(c.cli) } }
    /\ augFiles \in InputTrees
    /\ augOut0 \in { <<>>, StaleOutput }
    /\ augOut = augOut0
    /\ augPaths = <<>>
    /\ augIdx = 0
    /\ augPc = "start"
    /\ augRng = [draws |-> <<0>>, pos |-> 0]
    /\ augNp = [draws |-> <<0>>, pos |-> 0]
    /\ augWritten = 0
    /\ augWrites = <<>>
    /\ augError = ""
    /\ augRun = 1
    /\ augFirst = NoOutcome
    /\ IdleCall
    /\ IdleCollect
    /\ IdleInfer

AugFail(error) ==
    /\ augPc' = "failed"
    /\ augError' = error

\* parse_args (argparse rejects an --ops value outside the choices and exits),
\* then the two generators are seeded
AugParseArgs ==
    /\ augPc = "start"
    /\ IF \E i \in 1..Len(augArgs.ops) : augArgs.ops[i] \notin SupportedOps(augArgs.cli)
       THEN AugFail("SystemExit: invalid choice") /\ UNCHANGED <<augRng, augNp>>
       ELSE /\ augRng' = SeedRandom(augArgs.seed)
            /\ augNp' = SeedNumpy(augArgs.seed)
            /\ augPc' = "load"
            /\ UNCHANGED augError
    /\ UNCHANGED <<augArgs, augFiles, augOut0, augOut, augPaths, augIdx, augWritten,
                   augWrites, augRun, augFirst, notAug>>

\* input_paths = load_sequences(...); written = 0
AugLoadSequences ==
    /\ augPc = "load"
    /\ \E glob \in GlobResults :
         LET paths == load_sequences(augArgs.data_dirs, glob)
         IN  IF paths = <<>>
             THEN AugFail("FileNotFoundError") /\ UNCHANGED <<augPaths, augIdx>>
             ELSE /\ augPaths' = paths
                  /\ augIdx' = 1
                  /\ augPc' = "loop"
                  /\ UNCHANGED augError
    /\ augWritten' = 0
    /\ UNCHANGED <<augArgs, augFiles, augOut0, augOut, augRng, augNp, augWrites,
                   augRun, augFirst, notAug>>

\* one iteration of "for path in input_paths"
AugProcessFile ==
    /\ augPc = "loop"
    /\ augIdx <= Len(augPaths)
    /\ LET run == ProcessFile([out |-> augOut, rng |-> augRng, np |-> augNp,
                               written |-> augWritten, writes |-> augWrites,
                               raised |-> ""],
                              augPaths[augIdx], augFiles[augPaths[augIdx]], augArgs)
       IN  /\ augOut' = run.out
           /\ augRng' = run.rng
           /\ augNp' = run.np
           /\ augWritten' = run.written
           /\ augWrites' = run.writes
           /\ IF run.raised # ""
              THEN AugFail(run.raised) /\ UNCHANGED augIdx
              ELSE augIdx' = augIdx + 1 /\ UNCHANGED <<augPc, augError>>
    /\ UNCHANGED <<augArgs, augFiles, augOut0, augPaths, augRun, augFirst, notAug>>

\* the loop is over: the summary line is printed and main returns
AugFinish ==
    /\ augPc = "loop"
    /\ augIdx > Len(augPaths)
    /\ augPc' = "done"
    /\ UNCHANGED <<augArgs, augFiles, augOut0, augOut, augPaths, augIdx, augRng, augNp,
                   augWritten, augWrites, augError, augRun, augFirst, notAug>>

\* the same command line is run once more on the same input files and the
\* same output directory as before the first run
AugRunAgain ==
    /\ augRun = 1
    /\ augPc \in {"done", "failed"}
    /\ augFirst' = [pc |-> augPc, error |-> augError, out |-> augOut,
                    written |-> augWritten]
    /\ augRun' = 2
    /\ augOut' = augOut0
    /\ augPaths' = <<>>
    /\ augIdx' = 0
    /\ augPc' = "start"
    /\ augRng' = [draws |-> <<0>>, pos |-> 0]
    /\ augNp' = [draws |-> <<0>>, pos |-> 0]
    /\ augWritten' = 0
    /\ augWrites' = <<>>
    /\ augError' = ""
    /\ UNCHANGED <<augArgs, augFiles, augOut0, notAug>>

NextAug ==
    \/ AugParseArgs \/ AugLoadSequences \/ AugProcessFile \/ AugFinish
    \/ AugRunAgain

SpecAug == InitAug /\ [][NextAug]_vars

\* the indices of the save_sequence calls made for input path src with suffix
WriteIndices(src, suffix) ==
    { i \in 1..Len(augWrites) : augWrites[i].src = src /\ augWrites[i].suffix = suffix }

HasFeatures(path) ==
    /\ augFiles[path].exists
    /\ augFiles[path].json
    /\ "features" \in DOMAIN augFiles[path]
    /\ augFiles[path].features # <<>>

FixedWithOriginal == augArgs.cli = "fixed" /\ augArgs.include_original

\* C1 as stated (for a non-negative --copies): a fixed-window run with
\* --include-original that has ended normally has written, for every input
\* JSON file found in the data directories, exactly one "orig" file and exactly
\* `copies` "aug" files.
C1_Original ==
    (FixedWithOriginal /\ augArgs.copies >= 0 /\ augPc = "done") =>
        \A i \in 1..Len(augPaths) :
            /\ Cardinality(WriteIndices(augPaths[i], "orig")) = 1
            /\ Cardinality(WriteIndices(augPaths[i], "aug")) = augArgs.copies

\* the directory and stem the outputs of input path src go to
TargetOf(src) ==
    [dir |-> IF augArgs.split_by_session THEN ParentName(src.dir) ELSE "",
     stem |-> src.stem]

\* C1 amended: in a fixed-window run with --include-original, every input
\* whose record has a non-empty feature list and that the loop has gone past
\* got exactly one "orig" write, with index 0, and exactly max(copies, 0) "aug"
\* writes, with the indices 1..copies in order; an input with an empty feature
\* list got none; whatever the operation list.  A run that ends normally has
\* gone past every input, and the files it wrote number (1 + max(copies, 0))
\* per distinct output directory and stem of the non-empty inputs.
C1_FilesPerInput ==
    (FixedWithOriginal /\ augPc \in {"loop", "done", "failed"}) =>
        /\ \A i \in 1..Len(augPaths) :
              i < augIdx =>
                  IF HasFeatures(augPaths[i])
                  THEN /\ Cardinality(WriteIndices(augPaths[i], "orig")) = 1
                       /\ \A k \in WriteIndices(augPaths[i], "orig") :
                             augWrites[k].index = 0
                       /\ Cardinality(WriteIndices(augPaths[i], "aug"))
                             = Max(augArgs.copies, 0)
                       /\ { augWrites[k].index : k \in WriteIndices(augPaths[i], "aug") }
                             = 1..augArgs.copies
                       /\ \A k \in WriteIndices(augPaths[i], "aug") :
                             /\ \A o \in WriteIndices(augPaths[i], "orig") : o < k
                             /\ augWrites[k].path \in DOMAIN augOut
                  ELSE \A k \in 1..Len(augWrites) : augWrites[k].src # augPaths[i]
        /\ augPc = "done" =>
              /\ augIdx = Len(augPaths) + 1
              /\ augWritten = Len(augWrites)
              /\ Cardinality({ augWrites[k].path : k \in 1..Len(augWrites) })
                    = (1 + Max(augArgs.copies, 0))
                      * Cardinality({ TargetOf(augPaths[i]) :
                                        i \in { j \in 1..Len(augPaths) :
                                                  HasFeatures(augPaths[j]) } })

\* C1 witness: a run over an empty record and two records with features, two
\* copies each, has ended: six files written, none for the empty record
C1_Witness ==
    /\ FixedWithOriginal /\ augPc = "done"
    /\ augArgs.copies = 2
    /\ Len(augPaths) = 3
    /\ ~HasFeatures(augPaths[1])
    /\ Len(augWrites) = 6
    /\ augArgs.ops = <<"random_crop", "time_scale", "noise">>

\* the fatal conditions C2 names: no input files, a malformed or label-less
\* input record, an unsupported operation name
NamedFatal ==
    {"FileNotFoundError", "JSONDecodeError", "KeyError: label",
     "SystemExit: invalid choice", "ValueError: unsupported op"}

\* C2 as stated: when an augmentation run of either CLI has aborted for want
\* of input files, on a malformed or label-less input record or on an
\* unsupported operation name, the output directory is the same as before the
\* run started.
C2_NoPartialOutput ==
    (augPc = "failed" /\ augError \in NamedFatal) => augOut = augOut0

\* C10: the repetition of a run, with the same seed, arguments and input files
\* and whatever order the directory listing comes in, ends as the first run
\* did, with the same files holding the same contents in the output directory
\* and the same count of written sequences.
C10_Deterministic ==
    (augRun = 2 /\ augPc \in {"done", "failed"}) =>
        /\ augFirst.pc = augPc
        /\ augFirst.error = augError
        /\ augFirst.out = augOut
        /\ DOMAIN augFirst.out = DOMAIN augOut
        /\ augFirst.written = augWritten

\* C10 witness: the repetition of a run over two records of one directory, with
\* operations that draw from both generators, has ended and written files
C10_Witness ==
    /\ augRun = 2 /\ augPc = "done"
    /\ augArgs.ops = <<"random_crop", "time_scale", "noise">>
    /\ augArgs.copies = 2
    /\ HasFeatures([dir |-> "raw/s1", stem |-> "a"])
    /\ HasFeatures([dir |-> "raw/s1", stem |-> "b"])
    /\ Len(augWrites) >= 4
    /\ augFirst.out = augOut

\* the output paths written so far by the run
WrittenPaths == { augWrites[k].path : k \in 1..Len(augWrites) }

\* the input path of the last write to output path q
LastSource(q) ==
    augWrites[SetMax({ k \in 1..Len(augWrites) : augWrites[k].path = q })].src

\* C11: every Sequence Record written by either augmentation CLI has
\* frame_count equal to the number of its frames, all frames of one width,
\* and the label, sample_ms (20 when absent), feature_names and metadata of the
\* input record it was made from, whose path is its source field.
C11_RecordShape ==
    \A q \in WrittenPaths :
        /\ q \in DOMAIN augOut
        /\ LET rec == augOut[q]
               src == rec.source
           IN  /\ src = LastSource(q)
               /\ HasFeatures(src)
               /\ rec.frame_count = Len(rec.features.cells)
               /\ \A i \in 1..Len(rec.features.cells) :
                     Len(rec.features.cells[i]) = Shape1(augFiles[src].features)
               /\ rec.label = augFiles[src].label
               /\ rec.sample_ms = (IF "sample_ms" \in DOMAIN augFiles[src]
                                   THEN augFiles[src].sample_ms ELSE 20)
               /\ rec.feature_names = (IF "feature_names" \in DOMAIN augFiles[src]
                                       THEN augFiles[src].feature_names ELSE "None")
               /\ rec.metadata = (IF "metadata" \in DOMAIN augFiles[src]
                                  THEN augFiles[src].metadata ELSE "None")

\* C11 witness: a run has written an augmented record whose frame count
\* differs from its input's and whose cells are fractions, and a record made
\* from an input without sample_ms
C11_Witness ==
    /\ augPc = "done"
    /\ \E q \in WrittenPaths :
          /\ q.name[2] = "aug"
          /\ augOut[q].frame_count # Len(augFiles[augOut[q].source].features)
          /\ augOut[q].sample_ms = 10
          /\ augOut[q].features.den > 1
    /\ \E q \in WrittenPaths :
          /\ augOut[q].sample_ms = 20
          /\ augOut[q].feature_names = "None"

----------------------------------------------------------------------------
(* Specification SpecScale: one call of time_scale on drawn arguments *)

InitScale ==
    /\ call \in { [op |-> "time_scale", arr |-> [cells |-> Frames(n, w), den |-> 1],
                   rng |-> g, min_scale |-> lo, max_scale |-> hi] :
                  n \in 0..MaxLen, w \in {1, 7}, g \in RngStreams(1),
                  lo \in RatioNums, hi \in RatioNums }
    /\ ret = [arr |-> [cells |-> <<>>, den |-> 1], rng |-> [draws |-> <<0>>, pos |-> 0]]
    /\ cpc = "ready"
    /\ IdleCollect
    /\ IdleInfer
    /\ IdleAug

CallTimeScale ==
    /\ cpc = "ready"
    /\ call.op = "time_scale"
    /\ ret' = time_scale(call.arr, call.rng, call.min_scale, call.max_scale)
    /\ cpc' = "returned"
    /\ UNCHANGED <<call, notCall>>

NextScale == CallTimeScale

SpecScale == InitScale /\ [][NextScale]_vars

\* m is a / b rounded to the nearest integer, a tie going to the even one
IsRounded(m, a, b) ==
    /\ 2 * Abs(a - m * b) <= b
    /\ 2 * Abs(a - m * b) = b => m % 2 = 0

\* the frames out[i] / outden and in[j] / inden are equal
SameFrame(out, outden, in, inden) ==
    /\ Len(out) = Len(in)
    /\ \A c \in 1..Len(out) : out[c] * inden = in[c] * outden

\* C12: for a sequence of len >= 2 frames and the scale s drawn between the
\* two bounds, time_scale returns max(2, round(len * s)) frames, the first
\* equal to the input's first frame and the last to the input's last frame.
C12_ScaleLength ==
    (cpc = "returned" /\ call.op = "time_scale" /\ Len(call.arr.cells) >= 2) =>
        LET len == Len(call.arr.cells)
            s == Uniform(call.rng, call.min_scale, call.max_scale)
            out == ret.arr.cells
        IN  /\ Len(out) >= 2
            /\ \/ Len(out) = 2 /\ \E m \in (-3 * len)..2 :
                                     IsRounded(m, len * s, RatioDen * RawMax)
               \/ Len(out) > 2 /\ IsRounded(Len(out), len * s, RatioDen * RawMax)
            /\ SameFrame(out[1], ret.arr.den, call.arr.cells[1], call.arr.den)
            /\ SameFrame(out[Len(out)], ret.arr.den, call.arr.cells[len], call.arr.den)

\* C12 witness: a sequence of 7-wide frames was stretched to more frames than
\* it had, its inner frames interpolated
C12_Witness ==
    /\ cpc = "returned" /\ call.op = "time_scale"
    /\ Len(ret.arr.cells) > Len(call.arr.cells)
    /\ Len(call.arr.cells) >= 3
    /\ ret.arr.den > 1
    /\ Shape1(ret.arr.cells) = 7

\* C15 as stated: within one run, two writes that differ in input file,
\* suffix or copy index go to different output paths, so no file the run wrote
\* is overwritten by a later write of the run.
C15_DistinctPaths ==
    \A i, j \in 1..Len(augWrites) :
        i < j => augWrites[i].path # augWrites[j].path

\* the run is past the low-pass filter
Filtered == infPc \in {"stats", "idle", "weights", "score", "done"}

\* C16 as stated: for every window >= 1 and every sequence of at least one
\* frame the low-pass filter returns a sequence of as many frames, of the
\* same width, the input itself when window <= 1 or there are fewer than 2
\* frames, and never aborts the run, a window larger than the sequence
\* included.
C16_FilterTotal ==
    /\ infError # "ValueError: broadcast"
    /\ Filtered =>
          /\ Len(infSeq.cells) = Len(infPayload.features)
          /\ \A i \in 1..Len(infSeq.cells) :
                Len(infSeq.cells[i]) = Len(infPayload.features[i])
          /\ (infArgs.low_pass_window <= 1 \/ Len(infPayload.features) < 2) =>
                infSeq = [cells |-> infPayload.features, den |-> 1]

\* the input has frames of the width the config declares
WidthOk ==
    /\ infPayload.kind = "ok"
    /\ infPayload.features # <<>>
    /\ Shape1(infPayload.features) = infConfig.n_features

\* C17 as stated, for the runs the low-pass filter lets through: with
\* auto-idle disabled every input that passes the width validation reaches the
\* network; the idle-statistics step never aborts the run, whatever width the
\* config declares.
C17_StatsNeverAbort ==
    (~infArgs.auto_idle /\ WidthOk /\ infPc = "failed") =>
        infError \in {"weights", "ValueError: broadcast"}

\* C18 as stated: every printed result has its label among the keys of its
\* probabilities, its probability equal to the value under that label and no
\* label with a higher value, and a successful run prints exactly one result.
C18_SelfConsistent ==
    /\ \A k \in 1..Len(infStdout) :
          LET r == infStdout[k]
          IN  /\ r.label \in DOMAIN r.probabilities
              /\ r.probability = r.probabilities[r.label]
              /\ \A l \in DOMAIN r.probabilities : r.probabilities[l] <= r.probability
    /\ infPc = "done" => Len(infStdout) = 1

====
